---- MODULE Spec2Model ----
(***************************************************************************)
(* Model of the insurance recommendation app (src/app.py) and of the       *)
(* knowledge-base builder it spawns (src/build_summary.py).                *)
(*                                                                         *)
(* One Streamlit session is modelled.  Each user interaction reruns the    *)
(* script; pc is the position of the running script ("idle" between two    *)
(* reruns).  Text is a sequence of characters, a Python Optional[str] is a *)
(* sequence of length 0 (None) or 1, a dict is a function on its keys.     *)
(* The clock time.time() is counted in ticks of 1/TicksPerSecond second;   *)
(* it moves between reruns and by the sleeps of the retry loop.  The       *)
(* provider, the disk and the documents folder are the environment: each   *)
(* request, each write of the temporary file and each listing of the       *)
(* folder takes any of the outcomes enumerated below.                      *)
(***************************************************************************)
EXTENDS Integers, Sequences, FiniteSets

\* ---------------------------------------------------------------- bounds
TicksPerSecond == 2
MaxClock == 24
MaxDocs == 2

\* ------------------------------------------------------ program constants
MAX_RETRIES == 3
RETRY_DELAY == 6
REQUEST_COOLDOWN == 10

KB_FILE == <<"", "kb_summary.txt">>
OUTPUT_FILE == <<"", "kb_summary.txt">>
LastKey == "last_request_time"

\* ------------------------------------------------------- python helpers
None == <<>>
Some(s) == <<s>>

EmptyDict == [k \in {} |-> 0]
Get(d, k, default) == IF k \in DOMAIN d THEN d[k] ELSE default
Put(d, k, v) == [x \in (DOMAIN d) \cup {k} |-> IF x = k THEN v ELSE d[x]]
Del(d, k) == [x \in (DOMAIN d) \ {k} |-> d[x]]

\* "is not None" in place of truthiness
TruthyNotNone(x) == x # None

\* bool(x) of an Optional[str]: None and "" are falsy
Truthy(x) == x # None /\ x[1] # <<>>
\* x or ""
OrEmpty(x) == IF Truthy(x) THEN x[1] ELSE <<>>

\* round() in place of int(): to the nearest whole number
PyIntRound(num, den) == (2 * num + den) \div (2 * den)

\* int(num/den) for den > 0: Python's int() truncates toward zero
PyInt(num, den) == IF num >= 0 THEN num \div den ELSE -((-num) \div den)

IsSpace(c) == c = " "
RECURSIVE LStrip(_)
LStrip(s) == IF s # <<>> /\ IsSpace(Head(s)) THEN LStrip(Tail(s)) ELSE s
RECURSIVE RStrip(_)
RStrip(s) ==
  IF s # <<>> /\ IsSpace(s[Len(s)]) THEN RStrip(SubSeq(s, 1, Len(s) - 1)) ELSE s
\* str.strip()
Strip(s) == RStrip(LStrip(s))

\* sub in s
Contains(sub, s) ==
  \E i \in 0..(Len(s) - Len(sub)) : SubSeq(s, i + 1, i + Len(sub)) = sub

\* sequences over S of length at most n
SeqsUpTo(S, n) == UNION {[1..k -> S] : k \in 0..n}

\* --------------------------------------------------------------- inputs
UploadNames == {"call.mp3"}
AudioBytes == <<"a", "u", "d">>
TempPath(name) == <<"temp_", name>>

\* what the provider can answer: a text (possibly None for the text of a
\* summary response) or an exception with a message
ReportTexts == {<<"R">>, <<"S">>}
ErrorTexts ==
  {<<"4", "2", "9">>, <<"x", "4", "2", "9", "y">>, <<"5", "0", "0">>, <<"4", "2">>}
Ok(t) == [ok |-> TRUE, text |-> t]
Exc(m) == [ok |-> FALSE, text |-> m]
CallOutcomes == {Ok(t) : t \in ReportTexts} \cup {Exc(m) : m \in ErrorTexts}
UploadOutcomes == {Ok(<<"f">>)} \cup {Exc(m) : m \in ErrorTexts}
QuotaMessage == <<"q", "u", "o", "t", "a">>

VARIABLES
  now,            \* time.time(), in ticks
  session_state,  \* st.session_state
  fs,             \* files on disk: path -> content
  pc,             \* position of the script
  temp_path,      \* local of the main flow (None while not set)
  kb_summary,     \* local of the main flow, Optional[str]
  allowed,        \* what check_cooldown returned in this run (None before)
  cooldown,       \* locals last_time, current_time of that check_cooldown call
  attempt,        \* loop variable of generate_with_retry
  trace,          \* provider requests and sleeps of this run, in order
  result,         \* how generate_with_retry ended in this run
  ui,             \* what the run has shown to the user
  build           \* the last run of build_summary.py in this rerun

vars ==
  <<now, session_state, fs, pc, temp_path, kb_summary, allowed, cooldown,
    attempt, trace, result, ui, build>>

NoUi == [kind |-> "none", text |-> <<>>, n |-> 0]
Ui(kind, text, n) == [kind |-> kind, text |-> text, n |-> n]
NoCooldown == [last_time |-> 0, current_time |-> 0]
NoResult == [kind |-> "none", text |-> <<>>]
NoBuild == [ran |-> FALSE, all_text |-> <<>>, calls |-> 0, error |-> "none"]

Event(op, out) == [op |-> op, ok |-> out.ok, text |-> out.text]
SleepEvent == [op |-> "sleep", ok |-> TRUE, text |-> <<>>]

Init ==
  /\ now = 0
  /\ session_state = EmptyDict
  /\ fs = EmptyDict
  /\ pc = "idle"
  /\ temp_path = None
  /\ kb_summary = None
  /\ allowed = None
  /\ cooldown = NoCooldown
  /\ attempt = 0
  /\ trace = <<>>
  /\ result = NoResult
  /\ ui = NoUi
  /\ build = NoBuild

\* ------------------------------------------------------------- the clock
\* time passes between two reruns
Tick ==
  /\ pc = "idle"
  /\ now < MaxClock * TicksPerSecond
  /\ now' = now + 1
  /\ UNCHANGED <<session_state, fs, pc, temp_path, kb_summary, allowed, cooldown,
                 attempt, trace, result, ui, build>>

\* time.time() is the wall clock, which can be set back between two reruns
ClockSetBack ==
  /\ pc = "idle"
  /\ now > 0
  /\ now' = now - 1
  /\ UNCHANGED <<session_state, fs, pc, temp_path, kb_summary, allowed, cooldown,
                 attempt, trace, result, ui, build>>

\* ------------------------------------------------------ request governor
\* every exception taken for a rate limit
IsRateLimitAny(text) == TRUE

IsRateLimit(text) == Contains(<<"4", "2", "9">>, text)

\* the boundary taken for too soon
TooSoonInclusive(elapsed) == elapsed <= REQUEST_COOLDOWN * TicksPerSecond

\* line 66: the request comes too soon after the last accepted one
TooSoon(elapsed) == elapsed < REQUEST_COOLDOWN * TicksPerSecond

\* check_cooldown() recording the time before it decides
check_cooldown_stamp_first(ss, current_time) ==
  LET last_time == Get(ss, LastKey, 0) IN
    [allowed |-> ~TooSoon(current_time - last_time),
     session_state |-> Put(ss, LastKey, current_time),
     remaining |->
       PyInt(REQUEST_COOLDOWN * TicksPerSecond - (current_time - last_time),
             TicksPerSecond),
     last_time |-> last_time]

\* check_cooldown(), lines 61-72, on the session state and the clock reading:
\* what it returns, the session state it leaves, the wait it reports
check_cooldown(ss, current_time) ==
  LET last_time == Get(ss, LastKey, 0) IN
    IF TooSoon(current_time - last_time)
      THEN [allowed |-> FALSE,
            session_state |-> ss,
            remaining |->
              PyInt(REQUEST_COOLDOWN * TicksPerSecond - (current_time - last_time),
                    TicksPerSecond),
            last_time |-> last_time]
      ELSE [allowed |-> TRUE,
            session_state |-> Put(ss, LastKey, current_time),
            remaining |-> 0,
            last_time |-> last_time]

\* the budget off by one, either way
BudgetRemainsEarly(n) == n < MAX_RETRIES - 2
BudgetRemainsLate(n) == n < MAX_RETRIES

\* line 51: another attempt is left after this one
BudgetRemains(n) == n < MAX_RETRIES - 1

load_kb_summary(files) ==
  IF KB_FILE \in DOMAIN files THEN Some(files[KB_FILE]) ELSE None

\* rerun with "Run AI Analysis" pressed: lines 175-183 (the session is
\* followed up to MaxClock; a run started by then is followed to its end)
LoadKb ==
  /\ pc = "idle"
  /\ now <= MaxClock * TicksPerSecond
  /\ kb_summary' = load_kb_summary(fs)
  /\ IF ~Truthy(kb_summary')
       THEN /\ pc' = "no_kb"
            /\ ui' = Ui("warning_kb", <<>>, 0)
       ELSE /\ pc' = "check_cooldown"
            /\ ui' = ui
  /\ UNCHANGED <<now, session_state, fs, temp_path, allowed, cooldown, attempt, trace,
                 result, build>>

\* the call of check_cooldown() and the st.stop() on its refusal: lines 185-186
CheckCooldown ==
  /\ pc = "check_cooldown"
  /\ LET r == check_cooldown(session_state, now) IN
       /\ session_state' = r.session_state
       /\ allowed' = Some(r.allowed)
       /\ cooldown' = [last_time |-> r.last_time, current_time |-> now]
       /\ IF r.allowed
            THEN /\ pc' = "write_temp"
                 /\ ui' = ui
            ELSE /\ pc' = "stopped"
                 /\ ui' = Ui("warning_wait", <<>>, r.remaining)
  /\ UNCHANGED <<now, fs, temp_path, kb_summary, attempt, trace, result, build>>

\* lines 188-190: open(temp_path, "wb") creates or truncates the file, then
\* the buffer is written; either call can raise, outside the try block
WriteTemp ==
  /\ pc = "write_temp"
  /\ \E name \in UploadNames, io \in {"ok", "open_fails", "write_fails"} :
       /\ temp_path' = Some(TempPath(name))
       /\ CASE io = "ok" ->
                 /\ fs' = Put(fs, TempPath(name), AudioBytes)
                 /\ pc' = "upload"
                 /\ ui' = ui
            [] io = "open_fails" ->
                 /\ fs' = fs
                 /\ pc' = "uncaught"
                 /\ ui' = Ui("exception", <<>>, 0)
            [] io = "write_fails" ->
                 /\ fs' = Put(fs, TempPath(name), <<>>)
                 /\ pc' = "uncaught"
                 /\ ui' = Ui("exception", <<>>, 0)
  /\ UNCHANGED <<now, session_state, kb_summary, allowed, cooldown, attempt, trace,
                 result, build>>

\* line 195 and, when it raises, the except clause of lines 314-315
UploadAudio ==
  /\ pc = "upload"
  /\ \E out \in UploadOutcomes :
       /\ trace' = Append(trace, Event("upload", out))
       /\ IF out.ok
            THEN /\ pc' = "call"
                 /\ ui' = ui
            ELSE /\ pc' = "finally"
                 /\ ui' = Ui("error", out.text, 0)
  /\ attempt' = 0
  /\ UNCHANGED <<now, session_state, fs, temp_path, kb_summary, allowed, cooldown,
                 result, build>>

\* one pass of the loop body of generate_with_retry, lines 46-58, up to the
\* sleep; the return or raise is followed by lines 307-315
CallFn ==
  /\ pc = "call"
  /\ attempt < MAX_RETRIES
  /\ \E out \in CallOutcomes :
       /\ trace' = Append(trace, Event("call", out))
       /\ IF out.ok
            THEN /\ result' = [kind |-> "return", text |-> out.text]
                 /\ ui' = Ui("report", out.text, 0)
                 /\ pc' = "finally"
            ELSE IF IsRateLimit(out.text)
              THEN IF BudgetRemains(attempt)
                     THEN /\ result' = result
                          /\ ui' = ui
                          /\ pc' = "sleep"
                     ELSE /\ result' = [kind |-> "raise", text |-> QuotaMessage]
                          /\ ui' = Ui("error", QuotaMessage, 0)
                          /\ pc' = "finally"
              ELSE /\ result' = [kind |-> "raise", text |-> out.text]
                   /\ ui' = Ui("error", out.text, 0)
                   /\ pc' = "finally"
  /\ UNCHANGED <<now, session_state, fs, temp_path, kb_summary, allowed, cooldown,
                 attempt, build>>

\* time.sleep(RETRY_DELAY), line 52, and the next iteration of the loop
Sleep ==
  /\ pc = "sleep"
  /\ now' = now + RETRY_DELAY * TicksPerSecond
  /\ trace' = Append(trace, SleepEvent)
  /\ attempt' = attempt + 1
  /\ pc' = "call"
  /\ UNCHANGED <<session_state, fs, temp_path, kb_summary, allowed, cooldown, result,
                 ui, build>>

\* lines 317-319
Finally ==
  /\ pc = "finally"
  /\ fs' = IF temp_path[1] \in DOMAIN fs THEN Del(fs, temp_path[1]) ELSE fs
  /\ pc' = "done"
  /\ UNCHANGED <<now, session_state, temp_path, kb_summary, allowed, cooldown, attempt,
                 trace, result, ui, build>>

\* ------------------------------------------------- knowledge-base builder
\* a file of the documents folder: its extension, what f.read() gives for a
\* text file, what extract_text() gives for each page of a PDF
Txt(s) == [ext |-> ".txt", text |-> s, pages |-> <<>>]
Pdf(p) == [ext |-> ".pdf", text |-> <<>>, pages |-> p]
Other(e, s) == [ext |-> e, text |-> s, pages |-> <<>>]
PdfSamples == {<<>>, <<None>>, <<Some(<<"A">>)>>, <<None, Some(<<" ">>)>>}
Files ==
  {Txt(s) : s \in {<<>>, <<" ">>, <<"A">>}} \cup {Pdf(p) : p \in PdfSamples}
    \cup {Other(".md", <<"A">>), Other(".PDF", <<"A">>)}
DocDirs == SeqsUpTo(Files, MaxDocs)

RECURSIVE extract_text_from_pdf(_)
extract_text_from_pdf(pages) ==
  IF pages = <<>> THEN <<>>
  ELSE OrEmpty(Head(pages)) \o extract_text_from_pdf(Tail(pages))

\* the loop of lines 27-34 over the listing of the folder
RECURSIVE CollectText(_)
CollectText(listing) ==
  IF listing = <<>> THEN <<>>
  ELSE LET file == Head(listing)
           piece == IF file.ext = ".pdf" THEN extract_text_from_pdf(file.pages)
                    ELSE IF file.ext = ".txt" THEN file.text
                    ELSE <<>>
       IN  piece \o CollectText(Tail(listing))

CorpusTexts == {CollectText(d) : d \in DocDirs}

\* the answer to the summary request: response.text (Optional) or an exception
SummaryOutcomes ==
  {Ok(t) : t \in {None, Some(<<>>), Some(<<" ">>), Some(<<"K">>)}}
    \cup {Exc(<<"5", "0", "0">>)}

\* the check of lines 36-37 left out
EmptyCorpusNever(all_text) == FALSE

\* lines 36-37
EmptyCorpus(all_text) == Strip(all_text) = <<>>

\* build_summary.py from line 36 on, given the collected text and the
\* provider's answer: the files it leaves and how it ended
build_summary(files, all_text, out) ==
  IF EmptyCorpus(all_text)
    THEN [fs |-> files,
          build |-> [ran |-> TRUE, all_text |-> all_text, calls |-> 0,
                     error |-> "ValueError"]]
  ELSE IF ~out.ok
    THEN [fs |-> files,
          build |-> [ran |-> TRUE, all_text |-> all_text, calls |-> 1,
                     error |-> "provider"]]
  ELSE IF out.text = None
    THEN [fs |-> Put(files, OUTPUT_FILE, <<>>),
          build |-> [ran |-> TRUE, all_text |-> all_text, calls |-> 1,
                     error |-> "TypeError"]]
  ELSE [fs |-> Put(files, OUTPUT_FILE, out.text[1]),
        build |-> [ran |-> TRUE, all_text |-> all_text, calls |-> 1,
                   error |-> "none"]]

\* rerun with "Rebuild Knowledge Base" pressed: lines 153-159
Rebuild ==
  /\ pc = "idle"
  /\ \E all_text \in CorpusTexts, out \in SummaryOutcomes :
       LET run == build_summary(fs, all_text, out) IN
         /\ fs' = run.fs
         /\ build' = run.build
         /\ ui' = IF run.build.error = "none" THEN Ui("kb_success", <<>>, 0)
                  ELSE Ui("kb_error", <<>>, 0)
  /\ pc' = "rebuilt"
  /\ UNCHANGED <<now, session_state, temp_path, kb_summary, allowed, cooldown, attempt,
                 trace, result>>

\* the script run ends: its locals and its output are gone at the next rerun
EndRun ==
  /\ pc \in {"no_kb", "stopped", "uncaught", "done", "rebuilt"}
  /\ pc' = "idle"
  /\ temp_path' = None
  /\ kb_summary' = None
  /\ allowed' = None
  /\ cooldown' = NoCooldown
  /\ attempt' = 0
  /\ trace' = <<>>
  /\ result' = NoResult
  /\ ui' = NoUi
  /\ build' = NoBuild
  /\ UNCHANGED <<now, session_state, fs>>

Next ==
  \/ Tick
  \/ ClockSetBack
  \/ LoadKb
  \/ CheckCooldown
  \/ WriteTemp
  \/ UploadAudio
  \/ CallFn
  \/ Sleep
  \/ Finally
  \/ Rebuild
  \/ EndRun

Spec == Init /\ [][Next]_vars

\* ================================================================ claims
\* the retry loop's part of the run's trace
IsCall(e) == e.op = "call"
IsSleep(e) == e.op = "sleep"
IsRetryEvent(e) == e.op \in {"call", "sleep"}
Calls == SelectSeq(trace, IsCall)
Sleeps == SelectSeq(trace, IsSleep)
RetryOps ==
  LET r == SelectSeq(trace, IsRetryEvent) IN [i \in 1..Len(r) |-> r[i].op]
\* a rate-limit failure: an exception whose message carries the 429 indicator
Has429(text) ==
  \E i \in 1..(Len(text) - 2) :
    text[i] = "4" /\ text[i + 1] = "2" /\ text[i + 2] = "9"
RateLimited(e) == ~e.ok /\ Has429(e.text)
OtherFailure(e) == ~e.ok /\ ~Has429(e.text)
RetryEnded == result.kind # "none"
Threshold == REQUEST_COOLDOWN * TicksPerSecond
HasLast == LastKey \in DOMAIN session_state

\* C1: when every attempt fails with a rate-limit failure, generate_with_retry
\* makes exactly 3 calls with a sleep of the fixed delay between consecutive
\* calls (2 sleeps, none after the last call) and raises the quota error, which
\* is not the provider's error.
C1_ExhaustedRaisesQuota ==
  (RetryEnded /\ \A i \in DOMAIN Calls : RateLimited(Calls[i])) =>
    /\ RetryOps = <<"call", "sleep", "call", "sleep", "call">>
    /\ result = [kind |-> "raise", text |-> QuotaMessage]
    /\ \A i \in DOMAIN Calls : Calls[i].text # result.text
    /\ now = cooldown.current_time + 2 * 6 * TicksPerSecond

C1_Witness ==
  /\ pc = "done"
  /\ Len(Calls) = 3
  /\ \A i \in DOMAIN Calls : RateLimited(Calls[i])
  /\ result.kind = "raise"

\* C2: an attempt that fails with a non-rate-limit failure, first or later, is
\* the last event of the run: the same failure is raised, no sleep and no
\* further call follow it.
C2_OtherFailurePropagates ==
  \A i \in DOMAIN trace :
    (IsCall(trace[i]) /\ OtherFailure(trace[i])) =>
      /\ i = Len(trace)
      /\ result = [kind |-> "raise", text |-> trace[i].text]
      /\ pc \in {"finally", "done"}

C2_Witness ==
  /\ pc = "done"
  /\ Len(Calls) = 2
  /\ RateLimited(Calls[1])
  /\ OtherFailure(Calls[2])

\* C3: with a last accepted request less than the threshold ago, check_cooldown
\* refuses and reports threshold minus elapsed, rounded down to whole seconds.
C3_RejectsWithinCooldown ==
  [][(pc = "check_cooldown" /\ HasLast
        /\ now - session_state[LastKey] < Threshold) =>
       /\ pc' = "stopped"
       /\ allowed' = Some(FALSE)
       /\ ui'.kind = "warning_wait"
       /\ ui'.n * TicksPerSecond <= Threshold - (now - session_state[LastKey])
       /\ Threshold - (now - session_state[LastKey]) < (ui'.n + 1) * TicksPerSecond
    ]_vars

C3_Witness ==
  /\ pc = "stopped"
  /\ HasLast
  /\ allowed = Some(FALSE)
  /\ 0 < now - session_state[LastKey]
  /\ ui.n * TicksPerSecond < Threshold - (now - session_state[LastKey])

\* C4: with a last accepted request at least the threshold ago (the boundary
\* included), check_cooldown accepts and sets the last-accepted time to the
\* current time.
C4_AcceptsAfterCooldown ==
  [][(pc = "check_cooldown" /\ HasLast
        /\ now - session_state[LastKey] >= Threshold) =>
       /\ pc' = "write_temp"
       /\ allowed' = Some(TRUE)
       /\ LastKey \in DOMAIN session_state'
       /\ session_state'[LastKey] = now
    ]_vars

C4_Witness ==
  /\ pc = "write_temp"
  /\ allowed = Some(TRUE)
  /\ cooldown.last_time > 0
  /\ cooldown.current_time - cooldown.last_time = Threshold
  /\ session_state[LastKey] = now

\* C5: when an analysis attempt that got past the cooldown check has finished,
\* by the finally clause or by an exception, its temporary audio file is gone.
C5_TempFileRemoved ==
  (pc \in {"done", "uncaught"}) => temp_path[1] \notin DOMAIN fs

\* every folder holding no .pdf and no .txt file collects no text
UnsupportedOnlyIsEmpty ==
  \A d \in DocDirs :
    (\A i \in DOMAIN d : d[i].ext \notin {".pdf", ".txt"}) => CollectText(d) = <<>>

\* C6: a rebuild whose collected text is empty (an empty folder and a folder of
\* unsupported files collect none) fails with the empty-corpus error, sends
\* nothing to the model and leaves every file, the knowledge base included, as
\* it was.
C6_EmptyCorpusWritesNothing ==
  [][(pc = "idle" /\ pc' = "rebuilt" /\ build'.all_text = <<>>) =>
       /\ UnsupportedOnlyIsEmpty
       /\ build'.error = "ValueError"
       /\ build'.calls = 0
       /\ fs' = fs
       /\ ui'.kind = "kb_error"
    ]_vars

C6_Witness ==
  /\ pc = "rebuilt"
  /\ build.ran
  /\ build.all_text = <<>>
  /\ build.error = "ValueError"
  /\ KB_FILE \in DOMAIN fs
  /\ fs[KB_FILE] = <<"K">>

\* a step that sends a request of the recommendation flow to the provider
SendsRequest ==
  /\ Len(trace') > Len(trace)
  /\ trace'[Len(trace')].op \in {"upload", "call"}
\* a step that creates or rewrites a file other than the knowledge base
WritesTempFile ==
  \E p \in DOMAIN fs' : p # KB_FILE /\ (p \notin DOMAIN fs \/ fs'[p] # fs[p])
KbReady == KB_FILE \in DOMAIN fs /\ fs[KB_FILE] # <<>>

\* C7: the recommendation flow sends a request to the provider or creates a
\* temporary file only with a knowledge-base file of non-empty content on disk
\* and check_cooldown having accepted in this run; a run that found the
\* knowledge base missing or empty, or the cooldown active, ends there.
C7_GatedByKbAndCooldown ==
  [][/\ (SendsRequest \/ WritesTempFile) => (KbReady /\ allowed = Some(TRUE))
     /\ (pc = "idle" /\ pc' = "check_cooldown") => KbReady
     /\ (pc = "check_cooldown" /\ allowed' = Some(FALSE)) => pc' = "stopped"
     /\ pc \in {"no_kb", "stopped"} => (pc' = "idle" /\ fs' = fs /\ trace = <<>>)
    ]_vars

C7_Witness ==
  /\ pc = "done"
  /\ KbReady
  /\ allowed = Some(TRUE)
  /\ Len(Calls) >= 1
  /\ trace[1].op = "upload"

\* C8: the last-accepted time changes only in a check_cooldown call that
\* accepts, which sets it to the current time; a refusal and every other step
\* leave it as it is, and it is never removed or set back.
C8_TimestampOnlyOnAccept ==
  [][/\ session_state' # session_state =>
          /\ pc = "check_cooldown"
          /\ allowed' = Some(TRUE)
          /\ session_state' = Put(session_state, LastKey, now)
     /\ (pc = "check_cooldown" /\ allowed' = Some(TRUE)) =>
          session_state' # session_state
     /\ HasLast =>
          /\ LastKey \in DOMAIN session_state'
          /\ session_state'[LastKey] >= session_state[LastKey]
    ]_vars

C8_Witness ==
  /\ pc = "done"
  /\ result.kind = "raise"
  /\ Len(Sleeps) = 2
  /\ HasLast
  /\ session_state[LastKey] = cooldown.current_time
  /\ cooldown.last_time > 0

\* C9: generate_with_retry makes at most 3 calls and 2 sleeps and never runs
\* off its loop; a success on the k-th call comes after k-1 rate-limit
\* failures and k-1 sleeps, is returned as the result and is the last call.
C9_BoundedRetry ==
  /\ Len(Calls) <= 3
  /\ Len(Sleeps) <= 2
  /\ pc = "call" => Len(Calls) < 3
  /\ pc \in {"call", "sleep"} => ENABLED (CallFn \/ Sleep)
  /\ \A k \in DOMAIN Calls :
       Calls[k].ok =>
         /\ k = Len(Calls)
         /\ Len(Sleeps) = k - 1
         /\ \A j \in 1..(k - 1) : RateLimited(Calls[j])
         /\ result = [kind |-> "return", text |-> Calls[k].text]
         /\ pc \in {"finally", "done"}

C9_Witness ==
  /\ pc = "done"
  /\ Len(Calls) = 3
  /\ Calls[3].ok
  /\ result.kind = "return"

\* C10: in a session where no request has been accepted yet, check_cooldown
\* never refuses, whatever the clock reads.
C10_FirstRequestAccepted ==
  pc = "stopped" => HasLast
====
